---- MODULE Spec2Model ----
(***************************************************************************)
(* Branching content engine of CICLUZ: the relational content store        *)
(* (trilhas, content items, questions, options, answers) with its foreign  *)
(* keys, the administrator authoring routes, the end-user routes           *)
(* (track detail, content fetch, submit answer) and the TrilhaPage walker. *)
(***************************************************************************)
EXTENDS Integers, Sequences, FiniteSets, TLC

(* ------------------------------ bounds --------------------------------- *)
\* number of content item ids ever generated
MaxItems == 2
\* number of question ids ever generated
MaxQuestions == 2
\* number of option ids ever generated
MaxOptions == 2
\* number of answers a single user submits
MaxAnswers == 2
\* routing: number of question ids generated and of answers submitted
RouteQuestions == 1
RouteAnswers == 1
\* number of answers concurrent users submit
MaxConcAnswers == 3
\* concurrency: number of question ids generated
ConcQuestions == 1
\* question ids generated while answers race with authoring
RefQuestions == 2
\* number of end users issuing requests
NumUsers == 2
\* number of trilha ids ever generated
MaxTrilhas == 1

(* ----------------------------- encodings ------------------------------- *)
\* null / undefined
NULL == -1
\* the empty string used as an identifier ("" is not nullish but is falsy)
EmptyId == 0
\* character codes of " " and "a"; a string is a sequence of tokens, where a
\* token 1..Max* stands for the text of the uuid with that number
SP == 32
CH == 97
\* an absent (null or undefined) string field
NullStr == <<NULL>>

Users == 1..NumUsers
ItemIds == 1..MaxItems
QuestionIds == 1..MaxQuestions
OptionIds == 1..MaxOptions

IdStr(i) == <<i>>

\* String.prototype.trim as applied by z.string().trim()
RECURSIVE TrimLeft(_)
TrimLeft(s) == IF s # <<>> /\ Head(s) = SP THEN TrimLeft(Tail(s)) ELSE s

RECURSIVE TrimRight(_)
TrimRight(s) ==
  IF s # <<>> /\ s[Len(s)] = SP THEN TrimRight(SubSeq(s, 1, Len(s) - 1)) ELSE s

Trim(s) == TrimRight(TrimLeft(s))

\* z.string().trim().optional().nullable()
ZOptTrim(s) == IF s = NullStr THEN NullStr ELSE Trim(s)

\* JavaScript truthiness of an optional string
Truthy(s) == s # NullStr /\ s # <<>>

\* a ?? b
Coalesce(a, b) == IF a # NULL THEN a ELSE b

(* ------------------------------- state --------------------------------- *)
VARIABLES
  trilhas,          \* table trilhas
  contentItems,     \* table content_items
  contentQuestions, \* table content_questions
  contentOptions,   \* table content_options
  contentAnswers,   \* table content_answers
  ids,              \* how many uuids each table has generated
  req,              \* per user: the submit-answer request being served
  trilhaData,       \* TrilhaPage: result of the query ["trilha", trilhaId]
  contentData,      \* TrilhaPage: results of the queries ["conteudo", id]
  walker            \* TrilhaPage: component state and pending mutation

db == <<trilhas, contentItems, contentQuestions, contentOptions, contentAnswers, ids>>
client == <<trilhaData, contentData, walker>>
vars == <<trilhas, contentItems, contentQuestions, contentOptions, contentAnswers, ids, req,
          trilhaData, contentData, walker>>

(* --------------------------- storage layer ----------------------------- *)
\* SELECT ... WHERE id = :id (zero or one row)
getContentItem(id) == {i \in contentItems : i.id = id}

\* all orderings of a finite set of rows that respect ORDER BY "order"
\* (rows with equal order come back in an unspecified sequence)
OrderedBy(S) ==
  LET n == Cardinality(S)
  IN {s \in [1..n -> S] :
        /\ \A i, j \in 1..n : i # j => s[i] # s[j]
        /\ \A i, j \in 1..n : i < j => s[i].order <= s[j].order}

\* second half of getContentQuestions: group the option rows by question
WithOptions(qrows, orows) ==
  [k \in 1..Len(qrows) |->
     [id |-> qrows[k].id,
      contentItemId |-> qrows[k].contentItemId,
      order |-> qrows[k].order,
      required |-> qrows[k].required,
      options |-> SelectSeq(orows, LAMBDA o : o.questionId = qrows[k].id)]]

\* the deletion of items with no ON DELETE CASCADE on the keys that point at
\* them and at their questions
DeleteItemsResult_NoCascade(dead) ==
  [ok |-> TRUE,
   items |-> {i \in contentItems : i.id \notin dead},
   questions |-> contentQuestions,
   options |-> contentOptions,
   answers |-> contentAnswers]

\* rows removed by DELETE FROM content_items WHERE id IN dead, following the
\* ON DELETE CASCADE keys; ok is FALSE when a NO ACTION key would dangle
DeleteItemsResult(dead) ==
  LET deadQ == {q.id : q \in {x \in contentQuestions : x.contentItemId \in dead}}
      deadO == {o.id : o \in {x \in contentOptions : x.questionId \in deadQ}}
      keptO == {o \in contentOptions : o.questionId \notin deadQ}
      keptA == {a \in contentAnswers :
                  a.contentItemId \notin dead /\ a.questionId \notin deadQ}
  IN [ok |-> /\ \A o \in keptO : o.nextContentId \notin dead
             /\ \A a \in keptA : a.optionId \notin deadO,
      items |-> {i \in contentItems : i.id \notin dead},
      questions |-> {q \in contentQuestions : q.id \notin deadQ},
      options |-> keptO,
      answers |-> keptA]

RECURSIVE OptBase(_, _)
\* number of options inserted for the questions before position k
OptBase(qs, k) == IF k <= 1 THEN 0 ELSE OptBase(qs, k - 1) + Len(qs[k - 1].options)

TotalOptions(qs) == OptBase(qs, Len(qs) + 1)

\* replaceContentQuestions outside a transaction: the statements that ran
\* before the failing insert stay applied
ReplaceResult_NoRollback(items, contentItemId, qs) ==
  LET deadQ == {q.id : q \in {x \in contentQuestions : x.contentItemId = contentItemId}}
      keptO == {o \in contentOptions : o.questionId \notin deadQ}
      keptA == {a \in contentAnswers : a.questionId \notin deadQ}
      itemIds == {i.id : i \in items}
      bad == {k \in 1..Len(qs) :
                \E j \in 1..Len(qs[k].options) :
                  /\ qs[k].options[j].nextContentId # NULL
                  /\ qs[k].options[j].nextContentId \notin itemIds}
      stop == IF contentItemId \notin itemIds THEN 0
              ELSE IF bad = {} THEN Len(qs) + 1
              ELSE CHOOSE k \in bad : \A m \in bad : k <= m
      newQ == {[id |-> ids.question + k,
                contentItemId |-> contentItemId,
                order |-> Coalesce(qs[k].order, k - 1),
                required |-> (qs[k].required # "false")]
                 : k \in {m \in 1..Len(qs) : m <= stop}}
      newO == UNION {{[id |-> ids.option + OptBase(qs, k) + j,
                       questionId |-> ids.question + k,
                       nextContentId |-> qs[k].options[j].nextContentId,
                       order |-> Coalesce(qs[k].options[j].order, j - 1)]
                      : j \in 1..Len(qs[k].options)}
                     : k \in {m \in 1..Len(qs) : m < stop}}
  IN [ok |-> TRUE,
      questions |-> {q \in contentQuestions : q.id \notin deadQ} \cup newQ,
      options |-> keptO \cup newO,
      answers |-> keptA]

\* the transaction of replaceContentQuestions against the item table items:
\* delete the item's questions (cascading), insert the new ones; ok is FALSE
\* when a statement fails, in which case the transaction is rolled back
ReplaceResult(items, contentItemId, qs) ==
  LET deadQ == {q.id : q \in {x \in contentQuestions : x.contentItemId = contentItemId}}
      deadO == {o.id : o \in {x \in contentOptions : x.questionId \in deadQ}}
      keptO == {o \in contentOptions : o.questionId \notin deadQ}
      keptA == {a \in contentAnswers : a.questionId \notin deadQ}
      newQ == {[id |-> ids.question + k,
                contentItemId |-> contentItemId,
                order |-> Coalesce(qs[k].order, k - 1),
                required |-> (qs[k].required # "false")] : k \in 1..Len(qs)}
      newO == UNION {{[id |-> ids.option + OptBase(qs, k) + j,
                       questionId |-> ids.question + k,
                       nextContentId |-> qs[k].options[j].nextContentId,
                       order |-> Coalesce(qs[k].options[j].order, j - 1)]
                      : j \in 1..Len(qs[k].options)} : k \in 1..Len(qs)}
      itemIds == {i.id : i \in items}
  IN [ok |-> /\ \A a \in keptA : a.optionId \notin deadO
             /\ (qs # <<>> => contentItemId \in itemIds)
             /\ \A o \in newO : o.nextContentId = NULL \/ o.nextContentId \in itemIds,
      questions |-> {q \in contentQuestions : q.id \notin deadQ} \cup newQ,
      options |-> keptO \cup newO,
      answers |-> keptA]

(* ------------------------- administrator routes ------------------------ *)
\* status ?? "draft"
StatusOrDraft(status) == IF status = "omitted" THEN "draft" ELSE status

\* the item and its questions written in one transaction, rolled back as a
\* whole when the questions fail
AdminCreateContent_Atomic(trilhaId, status, nextContentId, order, questions) ==
  /\ ids.item < MaxItems
  /\ \A qs \in questions : /\ ids.question + Len(qs) <= MaxQuestions
                           /\ ids.option + TotalOptions(qs) <= MaxOptions
  /\ LET created == [id |-> ids.item + 1,
                     trilhaId |-> trilhaId,
                     status |-> StatusOrDraft(status),
                     nextContentId |-> nextContentId,
                     order |-> Coalesce(order, 0)]
         items == contentItems \cup {created}
     IN /\ trilhaId = NULL \/ \E t \in trilhas : t.id = trilhaId
        /\ contentItems' = IF \E qs \in questions : ~ReplaceResult(items, created.id, qs).ok
                           THEN contentItems ELSE items
        /\ IF \E qs \in questions : ReplaceResult(items, created.id, qs).ok
           THEN \E qs \in questions :
                  LET r == ReplaceResult(items, created.id, qs)
                  IN /\ contentQuestions' = r.questions
                     /\ contentOptions' = r.options
                     /\ contentAnswers' = r.answers
                     /\ ids' = [ids EXCEPT !.item = @ + 1,
                                           !.question = @ + Len(qs),
                                           !.option = @ + TotalOptions(qs)]
           ELSE /\ ids' = [ids EXCEPT !.item = @ + 1]
                /\ UNCHANGED <<contentQuestions, contentOptions, contentAnswers>>
  /\ UNCHANGED <<trilhas, req>>

\* POST /api/admin/conteudos: insert the item, then (when the body carries a
\* questions array; questions is {} when it does not) replace its questions
\* in a transaction of its own
AdminCreateContent(trilhaId, status, nextContentId, order, questions) ==
  /\ ids.item < MaxItems
  /\ \A qs \in questions : /\ ids.question + Len(qs) <= MaxQuestions
                           /\ ids.option + TotalOptions(qs) <= MaxOptions
  /\ LET created == [id |-> ids.item + 1,
                     trilhaId |-> trilhaId,
                     status |-> StatusOrDraft(status),
                     nextContentId |-> nextContentId,
                     order |-> Coalesce(order, 0)]
         items == contentItems \cup {created}
     IN /\ trilhaId = NULL \/ \E t \in trilhas : t.id = trilhaId
        /\ contentItems' = items
        /\ IF \E qs \in questions : ReplaceResult(items, created.id, qs).ok
           THEN \E qs \in questions :
                  LET r == ReplaceResult(items, created.id, qs)
                  IN /\ contentQuestions' = r.questions
                     /\ contentOptions' = r.options
                     /\ contentAnswers' = r.answers
                     /\ ids' = [ids EXCEPT !.item = @ + 1,
                                           !.question = @ + Len(qs),
                                           !.option = @ + TotalOptions(qs)]
           ELSE /\ ids' = [ids EXCEPT !.item = @ + 1]
                /\ UNCHANGED <<contentQuestions, contentOptions, contentAnswers>>
  /\ UNCHANGED <<trilhas, req>>

\* the update written with the fields of the body as they are
UpdatedItem_Assign(i, trilhaId, status, nextContentId, order) ==
  [id |-> i.id,
   trilhaId |-> trilhaId,
   status |-> IF status = "omitted" THEN i.status ELSE status,
   nextContentId |-> nextContentId,
   order |-> Coalesce(order, i.order)]

\* storage.updateContentItem with the route's "?? undefined" mapping: a field
\* that is null or omitted in the body is left as stored
UpdatedItem(i, trilhaId, status, nextContentId, order) ==
  [id |-> i.id,
   trilhaId |-> Coalesce(trilhaId, i.trilhaId),
   status |-> IF status = "omitted" THEN i.status ELSE status,
   nextContentId |-> Coalesce(nextContentId, i.nextContentId),
   order |-> Coalesce(order, i.order)]

\* PATCH /api/admin/conteudos/:id
AdminPatchContent(id, trilhaId, status, nextContentId, order, questions) ==
  /\ \A qs \in questions : /\ ids.question + Len(qs) <= MaxQuestions
                           /\ ids.option + TotalOptions(qs) <= MaxOptions
  /\ \E i \in getContentItem(id) :
       LET updated == UpdatedItem(i, trilhaId, status, nextContentId, order)
           items == (contentItems \ {i}) \cup {updated}
       IN /\ trilhaId = NULL \/ \E t \in trilhas : t.id = trilhaId
          /\ contentItems' = items
          /\ IF \E qs \in questions : ReplaceResult(items, id, qs).ok
             THEN \E qs \in questions :
                    LET r == ReplaceResult(items, id, qs)
                    IN /\ contentQuestions' = r.questions
                       /\ contentOptions' = r.options
                       /\ contentAnswers' = r.answers
                       /\ ids' = [ids EXCEPT !.question = @ + Len(qs),
                                             !.option = @ + TotalOptions(qs)]
             ELSE UNCHANGED <<contentQuestions, contentOptions, contentAnswers, ids>>
  /\ UNCHANGED <<trilhas, req>>

\* DELETE /api/admin/conteudos/:id
AdminDeleteContent(id) ==
  /\ getContentItem(id) # {}
  /\ LET r == DeleteItemsResult({id})
     IN /\ r.ok
        /\ contentItems' = r.items
        /\ contentQuestions' = r.questions
        /\ contentOptions' = r.options
        /\ contentAnswers' = r.answers
  /\ UNCHANGED <<trilhas, ids, req>>

(* ----------------------- POST /api/conteudos/:id/answer ---------------- *)
NoResp == [status |-> 0, message |-> "", answer |-> {}, nextContentId |-> NULL,
           nextContent |-> {}]

IdleReq == [pc |-> "idle", id |-> NULL, questionId |-> NullStr, optionId |-> NullStr,
            answerText |-> NullStr, item |-> {}, qrows |-> <<>>, question |-> {},
            option |-> {}, answer |-> {}, nextId |-> NULL, resp |-> NoResp]

\* the step leaves no more than this many question ids generated
Authored(questions) == ids'.question <= questions

\* requests being served
InFlight == {u \in Users : req[u].pc \notin {"idle", "done"}}

\* fewer than max answers are stored or about to be
RoomFor(max) == ids.answer + Cardinality(InFlight) < max

\* res.status(status).json({ message })
Reject(r, status, message) ==
  [IdleReq EXCEPT !.pc = "done",
                  !.id = r.id, !.questionId = r.questionId,
                  !.optionId = r.optionId, !.answerText = r.answerText,
                  !.resp = [NoResp EXCEPT !.status = status, !.message = message]]

\* the response carries the resolved id whether or not the item was found
Respond_KeepId(r, nextContent) ==
  [IdleReq EXCEPT !.pc = "done",
            !.id = r.id, !.questionId = r.questionId,
            !.optionId = r.optionId, !.answerText = r.answerText,
            !.nextId = r.nextId,
            !.resp = [status |-> 200, message |-> "", answer |-> r.answer,
                      nextContentId |-> r.nextId,
                      nextContent |-> nextContent]]

\* res.json({ answer, nextContentId: nextContent?.id ?? null, nextContent })
Respond(r, nextContent) ==
  [IdleReq EXCEPT !.pc = "done",
            !.id = r.id, !.questionId = r.questionId,
            !.optionId = r.optionId, !.answerText = r.answerText,
            !.nextId = r.nextId,
            !.resp = [status |-> 200, message |-> "", answer |-> r.answer,
                      nextContentId |-> IF nextContent = {} THEN NULL
                                        ELSE (CHOOSE c \in nextContent : TRUE).id,
                      nextContent |-> nextContent]]

\* the question looked up by id alone, among the questions of every item
FindQuestion_AnyItem(questions, questionId) ==
  {[id |-> q.id, contentItemId |-> q.contentItemId, order |-> q.order,
    required |-> q.required,
    options |-> CHOOSE os \in OrderedBy({o \in contentOptions : o.questionId = q.id}) : TRUE]
     : q \in {x \in contentQuestions : IdStr(x.id) = questionId}}

\* questions.find((q) => q.id === parsed.data.questionId)
FindQuestion(questions, questionId) ==
  LET hits == {k \in 1..Len(questions) : IdStr(questions[k].id) = questionId}
  IN IF hits = {} THEN {}
     ELSE {questions[CHOOSE k \in hits : \A m \in hits : k <= m]}

\* the option looked up by its id among all stored options
FindOption_AnyQuestion(options, optionId) ==
  {o \in contentOptions : IdStr(o.id) = optionId}

\* question.options.find((o) => o.id === parsed.data.optionId)
FindOption(options, optionId) ==
  LET hits == {k \in 1..Len(options) : IdStr(options[k].id) = optionId}
  IN IF hits = {} THEN {}
     ELSE {options[CHOOSE k \in hits : \A m \in hits : k <= m]}

\* the answer text tested for null instead of for emptiness
RequiredMissing_NullOnly(question, option, answerText) ==
  question.required /\ option = {} /\ answerText = NullStr

\* question.required && !option && !parsed.data.answerText
RequiredMissing(question, option, answerText) ==
  question.required /\ option = {} /\ ~Truthy(answerText)

\* the item's default consulted before the option's route
ResolveNextId_ItemFirst(option, item) ==
  LET fromOption == IF option = {} THEN NULL
                    ELSE (CHOOSE o \in option : TRUE).nextContentId
  IN Coalesce(item.nextContentId, fromOption)

\* option?.nextContentId ?? item.nextContentId ?? null
ResolveNextId(option, item) ==
  LET fromOption == IF option = {} THEN NULL
                    ELSE (CHOOSE o \in option : TRUE).nextContentId
  IN Coalesce(fromOption, item.nextContentId)

\* the candidate returned whatever its status
NextContent_AnyStatus(nextId) == getContentItem(nextId)

\* candidate && candidate.status === "published"
NextContent(nextId) == {c \in getContentItem(nextId) : c.status = "published"}

\* an upsert keyed by (user, item, question) instead of a plain insert
InsertAnswer_Upsert(rows, row) ==
  {a \in rows : ~ (/\ a.userId = row.userId
                    /\ a.contentItemId = row.contentItemId
                    /\ a.questionId = row.questionId)} \cup {row}

\* storage.createContentAnswer: INSERT ... RETURNING
InsertAnswer(rows, row) == rows \cup {row}

\* parse the body, then storage.getContentItem(id)
AnswerBeginNext(id, rawQuestionId, rawOptionId, rawAnswerText) ==
  LET r == [IdleReq EXCEPT !.id = id,
                           !.questionId = ZOptTrim(rawQuestionId),
                           !.optionId = ZOptTrim(rawOptionId),
                           !.answerText = ZOptTrim(rawAnswerText)]
      item == getContentItem(id)
  IN IF rawQuestionId = NullStr THEN Reject(r, 400, "Required")
     ELSE IF r.questionId = <<>> THEN Reject(r, 400, "Pergunta obrigatoria")
     ELSE IF item = {} THEN Reject(r, 404, "Conteudo nao encontrado")
     ELSE IF \E i \in item : i.status # "published"
          THEN Reject(r, 404, "Conteudo nao encontrado")
     ELSE [r EXCEPT !.pc = "questions", !.item = item]

\* the handler up to its first await, for user u
AnswerBegin(u, id, rawQuestionId, rawOptionId, rawAnswerText) ==
  /\ req[u].pc \in {"idle", "done"}
  /\ req' = [req EXCEPT ![u] = AnswerBeginNext(id, rawQuestionId, rawOptionId, rawAnswerText)]
  /\ UNCHANGED db

\* the checks between getContentQuestions and createContentAnswer
Validate(r, questions) ==
  LET question == FindQuestion(questions, r.questionId)
  IN IF question = {} THEN Reject(r, 400, "Pergunta invalida")
     ELSE LET q == CHOOSE x \in question : TRUE
              option == FindOption(q.options, r.optionId)
          IN IF RequiredMissing(q, option, r.answerText)
             THEN Reject(r, 400, "Resposta obrigatoria")
             ELSE [r EXCEPT !.pc = "insert", !.qrows = <<>>,
                            !.question = question, !.option = option]

\* getContentQuestions, first query: the item's question rows
AnswerGetQuestions(u) ==
  /\ req[u].pc = "questions"
  /\ \E qrows \in OrderedBy({q \in contentQuestions : q.contentItemId = req[u].id}) :
       req' = [req EXCEPT ![u] =
                 IF Len(qrows) = 0 THEN Validate(req[u], <<>>)
                 ELSE [req[u] EXCEPT !.pc = "options", !.qrows = qrows]]
  /\ UNCHANGED db

\* getContentQuestions, second query: the option rows of those questions
AnswerGetOptions(u) ==
  /\ req[u].pc = "options"
  /\ LET qids == {req[u].qrows[k].id : k \in 1..Len(req[u].qrows)}
     IN \E orows \in OrderedBy({o \in contentOptions : o.questionId \in qids}) :
          req' = [req EXCEPT ![u] = Validate(req[u], WithOptions(req[u].qrows, orows))]
  /\ UNCHANGED db

\* the insert into a table that declares no foreign keys
AnswerInsert_NoForeignKey(u) ==
  /\ req[u].pc = "insert"
  /\ LET r == req[u]
         q == CHOOSE x \in r.question : TRUE
         item == CHOOSE x \in r.item : TRUE
         row == [id |-> ids.answer + 1,
                 userId |-> u,
                 contentItemId |-> r.id,
                 questionId |-> q.id,
                 optionId |-> IF r.option = {} THEN NULL
                              ELSE (CHOOSE o \in r.option : TRUE).id,
                 answerText |-> r.answerText]
         fkOk == TRUE
         nextId == ResolveNextId(r.option, item)
     IN IF ~fkOk
        THEN /\ req' = [req EXCEPT ![u] = Reject(r, 500, "")]
             /\ UNCHANGED db
        ELSE /\ contentAnswers' = InsertAnswer(contentAnswers, row)
             /\ ids' = [ids EXCEPT !.answer = @ + 1]
             /\ req' = [req EXCEPT ![u] =
                  IF nextId # NULL /\ nextId # EmptyId
                  THEN [r EXCEPT !.pc = "candidate", !.answer = {row}, !.nextId = nextId]
                  ELSE Respond([r EXCEPT !.answer = {row}, !.nextId = nextId], {})]
             /\ UNCHANGED <<trilhas, contentItems, contentQuestions, contentOptions>>

\* storage.createContentAnswer, then the resolution of nextId
AnswerInsert(u) ==
  /\ req[u].pc = "insert"
  /\ LET r == req[u]
         q == CHOOSE x \in r.question : TRUE
         item == CHOOSE x \in r.item : TRUE
         row == [id |-> ids.answer + 1,
                 userId |-> u,
                 contentItemId |-> r.id,
                 questionId |-> q.id,
                 optionId |-> IF r.option = {} THEN NULL
                              ELSE (CHOOSE o \in r.option : TRUE).id,
                 answerText |-> r.answerText]
         fkOk == /\ getContentItem(row.contentItemId) # {}
                 /\ \E x \in contentQuestions : x.id = row.questionId
                 /\ row.optionId = NULL \/ \E x \in contentOptions : x.id = row.optionId
         nextId == ResolveNextId(r.option, item)
     IN IF ~fkOk
        THEN /\ req' = [req EXCEPT ![u] = Reject(r, 500, "")]
             /\ UNCHANGED db
        ELSE /\ contentAnswers' = InsertAnswer(contentAnswers, row)
             /\ ids' = [ids EXCEPT !.answer = @ + 1]
             /\ req' = [req EXCEPT ![u] =
                  IF nextId # NULL /\ nextId # EmptyId
                  THEN [r EXCEPT !.pc = "candidate", !.answer = {row}, !.nextId = nextId]
                  ELSE Respond([r EXCEPT !.answer = {row}, !.nextId = nextId], {})]
             /\ UNCHANGED <<trilhas, contentItems, contentQuestions, contentOptions>>

\* storage.getContentItem(nextId) and the response
AnswerCandidate(u) ==
  /\ req[u].pc = "candidate"
  /\ req' = [req EXCEPT ![u] = Respond(req[u], NextContent(req[u].nextId))]
  /\ UNCHANGED db

(* ------------------------ trilhas: admin and detail --------------------- *)
\* POST /api/admin/trilhas
AdminCreateTrilha(startContentId, order) ==
  /\ ids.trilha < MaxTrilhas
  /\ trilhas' = trilhas \cup {[id |-> ids.trilha + 1,
                               startContentId |-> startContentId,
                               order |-> Coalesce(order, 0)]}
  /\ ids' = [ids EXCEPT !.trilha = @ + 1]
  /\ UNCHANGED <<contentItems, contentQuestions, contentOptions, contentAnswers, req>>

\* PATCH /api/admin/trilhas/:id with the route's "?? undefined" mapping
AdminPatchTrilha(id, startContentId, order) ==
  /\ \E t \in {x \in trilhas : x.id = id} :
       trilhas' = (trilhas \ {t})
                    \cup {[id |-> t.id,
                           startContentId |-> Coalesce(startContentId, t.startContentId),
                           order |-> Coalesce(order, t.order)]}
  /\ UNCHANGED <<contentItems, contentQuestions, contentOptions, contentAnswers, ids, req>>

\* DELETE /api/admin/trilhas/:id: the items of the trilha go with it by the
\* cascading key; the statement fails when a NO ACTION key would dangle
AdminDeleteTrilha(id) ==
  /\ \E t \in {x \in trilhas : x.id = id} :
       LET r == DeleteItemsResult({i.id : i \in {x \in contentItems : x.trilhaId = id}})
       IN /\ r.ok
          /\ trilhas' = trilhas \ {t}
          /\ contentItems' = r.items
          /\ contentQuestions' = r.questions
          /\ contentOptions' = r.options
          /\ contentAnswers' = r.answers
  /\ UNCHANGED <<ids, req>>

\* JavaScript truthiness of an optional identifier
TruthyId(x) == x # NULL /\ x # EmptyId

\* list.sort by (order ?? 0, createdAt); items are created one request after
\* the other, so createdAt grows with the id
SortedItems(S) ==
  CHOOSE s \in OrderedBy(S) :
    \A a, b \in 1..Len(s) : (a < b /\ s[a].order = s[b].order) => s[a].id < s[b].id

\* storage.getContentItems(id, "published"), sorted by the route
PublishedItemsOf(id) ==
  SortedItems({i \in contentItems : i.trilhaId = id /\ i.status = "published"})

\* GET /api/trilhas/:id that never looks at the stored startContentId
GetTrilhaDetail_FirstItem(id) ==
  {[startContentId |->
      IF PublishedItemsOf(id) = <<>> THEN NULL ELSE PublishedItemsOf(id)[1].id,
    items |-> PublishedItemsOf(id)]
     : t \in {x \in trilhas : x.id = id}}

\* GET /api/trilhas/:id: the body of the 200 response, or {} for 404
GetTrilhaDetail(id) ==
  {[startContentId |->
      Coalesce(t.startContentId,
               IF PublishedItemsOf(id) = <<>> THEN NULL ELSE PublishedItemsOf(id)[1].id),
    items |-> PublishedItemsOf(id)]
     : t \in {x \in trilhas : x.id = id}}

\* byTrilha.get(id) of GET /api/trilhas, sorted: the published items grouped
\* under a truthy trilhaId
ByTrilha(id) ==
  SortedItems({i \in contentItems :
                 i.status = "published" /\ TruthyId(i.trilhaId) /\ i.trilhaId = id})

\* GET /api/trilhas without the filter on itemsCount
GetTrilhas_NoFilter ==
  {[id |-> t.id,
    itemsCount |-> Len(ByTrilha(t.id)),
    startContentId |-> Coalesce(t.startContentId,
                                IF ByTrilha(t.id) = <<>> THEN NULL ELSE ByTrilha(t.id)[1].id)]
     : t \in trilhas}

\* GET /api/trilhas: the entries of the payload
GetTrilhas ==
  {p \in {[id |-> t.id,
           itemsCount |-> Len(ByTrilha(t.id)),
           startContentId |-> Coalesce(t.startContentId,
                                       IF ByTrilha(t.id) = <<>> THEN NULL
                                       ELSE ByTrilha(t.id)[1].id)]
            : t \in trilhas}
     : p.itemsCount > 0}

(* ------------------------------ TrilhaPage ----------------------------- *)
NoWalker == [trilhaId |-> NULL, currentId |-> NULL, selectedOptionId |-> EmptyId,
             questionIndex |-> 0, branchNextId |-> NULL, completed |-> FALSE,
             pending |-> FALSE, hasNextQuestion |-> FALSE]

\* contentData of the current item: {} while loading or after a failed fetch
CurrentData == IF walker.currentId = NULL THEN {} ELSE contentData[walker.currentId]

\* the panel with the item and the Continue button also shown when completed
Rendered_IgnoreCompleted == trilhaData # {} /\ CurrentData # {}

\* the panel with the item and the Continue button is rendered
Rendered == trilhaData # {} /\ CurrentData # {} /\ ~walker.completed

\* the question on display taken to be the first one whatever the index
CurrentQuestion_First ==
  UNION {IF 0 < Len(d.questions) THEN {d.questions[1]} ELSE {} : d \in CurrentData}

\* questions[questionIndex] ?? null
CurrentQuestion ==
  UNION {IF walker.questionIndex < Len(d.questions)
         THEN {d.questions[walker.questionIndex + 1]} ELSE {} : d \in CurrentData}

\* the effect on [currentId]
ResetEffect(w) ==
  IF w.currentId = NULL THEN w
  ELSE [w EXCEPT !.questionIndex = 0, !.selectedOptionId = EmptyId, !.branchNextId = NULL]

\* the effect on [trilhaData?.trilha?.startContentId]
StartEffect(w, startContentId) ==
  IF ~TruthyId(startContentId) THEN w
  ELSE ResetEffect([w EXCEPT !.currentId = startContentId,
                             !.selectedOptionId = EmptyId,
                             !.questionIndex = 0,
                             !.branchNextId = NULL,
                             !.completed = FALSE])

\* onSuccess without the check for an absent next id
OnSuccess_NoComplete(w, nextFromAnswer, hasNextQuestion) ==
  IF hasNextQuestion
  THEN [w EXCEPT !.branchNextId = IF TruthyId(nextFromAnswer) THEN nextFromAnswer ELSE @,
                 !.questionIndex = @ + 1,
                 !.selectedOptionId = EmptyId,
                 !.pending = FALSE]
  ELSE LET nextId == Coalesce(nextFromAnswer, w.branchNextId)
           cleared == [w EXCEPT !.selectedOptionId = EmptyId,
                                !.branchNextId = NULL,
                                !.questionIndex = 0,
                                !.pending = FALSE]
       IN IF nextId = w.currentId THEN cleared
          ELSE ResetEffect([cleared EXCEPT !.currentId = nextId])

\* answerMutation.onSuccess, followed by the effect on [currentId]
OnSuccess(w, nextFromAnswer, hasNextQuestion) ==
  IF hasNextQuestion
  THEN [w EXCEPT !.branchNextId = IF TruthyId(nextFromAnswer) THEN nextFromAnswer ELSE @,
                 !.questionIndex = @ + 1,
                 !.selectedOptionId = EmptyId,
                 !.pending = FALSE]
  ELSE LET nextId == Coalesce(nextFromAnswer, w.branchNextId)
           cleared == [w EXCEPT !.selectedOptionId = EmptyId,
                                !.branchNextId = NULL,
                                !.questionIndex = 0,
                                !.pending = FALSE]
       IN IF ~TruthyId(nextId) THEN [cleared EXCEPT !.completed = TRUE]
          ELSE IF nextId = w.currentId THEN cleared
          ELSE ResetEffect([cleared EXCEPT !.currentId = nextId])

\* the query ["trilha", id]: of the body of GET /api/trilhas/:id the page
\* reads trilha.startContentId (and texts that are not modelled)
TrilhaQuery(id) == {[startContentId |-> d.startContentId] : d \in GetTrilhaDetail(id)}

\* the page is opened on a trilha: the query ["trilha", id] resolves and the
\* start effect runs
WalkerOpen(id) ==
  /\ walker.trilhaId = NULL
  /\ trilhaData' = TrilhaQuery(id)
  /\ walker' = IF TrilhaQuery(id) = {} THEN [walker EXCEPT !.trilhaId = id]
               ELSE StartEffect([walker EXCEPT !.trilhaId = id],
                                (CHOOSE d \in TrilhaQuery(id) : TRUE).startContentId)
  /\ UNCHANGED <<db, req, contentData>>

\* the state of a freshly mounted page on the same trilha once the start
\* effect has run over the body `data` of the trilha query
Reentered(data) ==
  IF data = {} THEN [NoWalker EXCEPT !.trilhaId = walker.trilhaId]
  ELSE StartEffect([NoWalker EXCEPT !.trilhaId = walker.trilhaId],
                   (CHOOSE d \in data : TRUE).startContentId)

\* the user leaves the page and comes back to the same trilha: the component
\* mounts with its initial state, the query ["trilha", id] answers from the
\* cache or from the server, and the start effect runs
WalkerReenter ==
  /\ walker.trilhaId # NULL
  /\ ~walker.pending
  /\ \E data \in {trilhaData, TrilhaQuery(walker.trilhaId)} :
       /\ trilhaData' = data
       /\ walker' = Reentered(data)
  /\ UNCHANGED <<db, req, contentData>>

\* GET /api/conteudos/:id without the check of the status
GetConteudo_NoFilter(id, isAdmin) ==
  UNION {{[item |-> i, questions |-> WithOptions(qrows, orows)] :
            qrows \in OrderedBy({q \in contentQuestions : q.contentItemId = id}),
            orows \in OrderedBy({o \in contentOptions :
                                   \E q \in contentQuestions :
                                     q.contentItemId = id /\ o.questionId = q.id})}
         : i \in getContentItem(id)}

\* GET /api/conteudos/:id for a requester who is or is not an administrator:
\* the bodies the 200 response can have, {} for 404
GetConteudo(id, isAdmin) ==
  UNION {IF ~isAdmin /\ i.status # "published" THEN {}
         ELSE {[item |-> i, questions |-> WithOptions(qrows, orows)] :
                 qrows \in OrderedBy({q \in contentQuestions : q.contentItemId = id}),
                 orows \in OrderedBy({o \in contentOptions :
                                        \E q \in contentQuestions :
                                          q.contentItemId = id /\ o.questionId = q.id})}
         : i \in getContentItem(id)}

\* GET /api/conteudos/:id answering 200 to everybody
GetConteudoReply_Always(id, isAdmin) ==
  IF getContentItem(id) = {}
  THEN [status |-> 404, message |-> "Conteudo nao encontrado"]
  ELSE [status |-> 200, message |-> ""]

\* GET /api/conteudos/:id: status and message of the response
GetConteudoReply(id, isAdmin) ==
  IF getContentItem(id) = {}
  THEN [status |-> 404, message |-> "Conteudo nao encontrado"]
  ELSE IF ~isAdmin /\ \E i \in getContentItem(id) : i.status # "published"
  THEN [status |-> 404, message |-> "Conteudo nao encontrado"]
  ELSE [status |-> 200, message |-> ""]

\* the query ["conteudo", currentId] resolves
WalkerLoadContent ==
  /\ walker.currentId # NULL
  /\ CurrentData = {}
  /\ \E d \in GetConteudo(walker.currentId, FALSE) :
       contentData' = [contentData EXCEPT ![walker.currentId] = {d}]
  /\ UNCHANGED <<db, req, trilhaData, walker>>

\* the user picks an option of the question on display
WalkerSelect ==
  /\ Rendered
  /\ ~walker.pending
  /\ \E q \in CurrentQuestion : \E k \in 1..Len(q.options) :
       walker' = [walker EXCEPT !.selectedOptionId = q.options[k].id]
  /\ UNCHANGED <<db, req, trilhaData, contentData>>

\* the Continue button taking every question for one that has a successor
WalkerContinue_OffByOne(u) ==
  /\ Rendered
  /\ ~walker.pending
  /\ \A q \in CurrentQuestion : ~ (q.required /\ walker.selectedOptionId = EmptyId)
  /\ IF CurrentQuestion = {}
     THEN /\ walker' = OnSuccess(walker,
                                 (CHOOSE d \in CurrentData : TRUE).item.nextContentId,
                                 FALSE)
          /\ UNCHANGED <<db, req>>
     ELSE /\ \E q \in CurrentQuestion, d \in CurrentData :
               /\ AnswerBegin(u, walker.currentId, IdStr(q.id),
                              IF walker.selectedOptionId = EmptyId THEN NullStr
                              ELSE IdStr(walker.selectedOptionId),
                              NullStr)
               /\ walker' = [walker EXCEPT !.pending = TRUE,
                                           !.hasNextQuestion =
                                              walker.questionIndex < Len(d.questions)]
  /\ UNCHANGED <<trilhaData, contentData>>

\* the Continue button: answerMutation.mutate(); without a question the
\* mutation resolves at once, with one it posts the answer for user u
WalkerContinue(u) ==
  /\ Rendered
  /\ ~walker.pending
  /\ \A q \in CurrentQuestion : ~ (q.required /\ walker.selectedOptionId = EmptyId)
  /\ IF CurrentQuestion = {}
     THEN /\ walker' = OnSuccess(walker,
                                 (CHOOSE d \in CurrentData : TRUE).item.nextContentId,
                                 FALSE)
          /\ UNCHANGED <<db, req>>
     ELSE /\ \E q \in CurrentQuestion, d \in CurrentData :
               /\ AnswerBegin(u, walker.currentId, IdStr(q.id),
                              IF walker.selectedOptionId = EmptyId THEN NullStr
                              ELSE IdStr(walker.selectedOptionId),
                              NullStr)
               /\ walker' = [walker EXCEPT !.pending = TRUE,
                                           !.hasNextQuestion =
                                              walker.questionIndex < Len(d.questions) - 1]
  /\ UNCHANGED <<trilhaData, contentData>>

\* the answer taken with the captured override left as it was
WalkerAnswered_KeepOverride(u) ==
  /\ walker.pending
  /\ req[u].pc = "done"
  /\ walker' = IF req[u].resp.status = 200
               THEN [OnSuccess(walker, req[u].resp.nextContentId, walker.hasNextQuestion)
                       EXCEPT !.branchNextId = IF walker.hasNextQuestion THEN @
                                               ELSE walker.branchNextId]
               ELSE [walker EXCEPT !.pending = FALSE]
  /\ UNCHANGED <<db, req, trilhaData, contentData>>

\* the POST of user u has been answered: onSuccess for 200, onError otherwise
WalkerAnswered(u) ==
  /\ walker.pending
  /\ req[u].pc = "done"
  /\ walker' = IF req[u].resp.status = 200
               THEN OnSuccess(walker, req[u].resp.nextContentId, walker.hasNextQuestion)
               ELSE [walker EXCEPT !.pending = FALSE]
  /\ UNCHANGED <<db, req, trilhaData, contentData>>

(* --------------------------- specification ----------------------------- *)
\* references an administrator can type: nothing, "", or the id of an item
\* that has been created (whether or not it still exists)
Refs == {NULL, EmptyId} \cup 1..ids.item

\* one question (required by default, or optional) with one option
OneQuestion == {<<[order |-> NULL, required |-> r,
                   options |-> <<[nextContentId |-> n, order |-> NULL]>>]>> :
                  r \in {"omitted", "false"}, n \in {NULL} \cup ItemIds}

Init ==
  /\ trilhas = {}
  /\ contentItems = {}
  /\ contentQuestions = {}
  /\ contentOptions = {}
  /\ contentAnswers = {}
  /\ ids = [trilha |-> 0, item |-> 0, question |-> 0, option |-> 0, answer |-> 0]
  /\ req = [u \in Users |-> IdleReq]
  /\ trilhaData = {}
  /\ contentData = [i \in ItemIds |-> {}]
  /\ walker = NoWalker

\* Routing of submit-answer: the first item carries the question and a
\* default route to a later item; the later items are the targets of the
\* routes, published, withdrawn and deleted at will.
Next ==
  \/ /\ UNCHANGED client
     /\ \E status \in {"omitted", "published"} :
          AdminCreateContent(NULL, status, NULL, NULL, {})
  \/ /\ UNCHANGED client
     /\ \E status \in {"draft", "published"}, id \in ItemIds \ {1} :
          AdminPatchContent(id, NULL, status, NULL, NULL, {})
  \/ /\ UNCHANGED client
     /\ \E next \in Refs \ {1} : AdminPatchContent(1, NULL, "omitted", next, NULL, {})
  \/ /\ UNCHANGED client
     /\ \E qs \in OneQuestion :
          /\ AdminPatchContent(1, NULL, "omitted", NULL, NULL, {qs})
          /\ Authored(RouteQuestions)
  \/ /\ UNCHANGED client
     /\ \E id \in ItemIds \ {1} : AdminDeleteContent(id)
  \/ /\ UNCHANGED client
     /\ RoomFor(RouteAnswers)
     /\ \E q \in 1..RouteQuestions, o \in {NullStr} \cup {IdStr(x) : x \in 1..RouteQuestions} :
          AnswerBegin(1, 1, IdStr(q), o, NullStr)
  \/ UNCHANGED client /\ AnswerGetQuestions(1)
  \/ UNCHANGED client /\ AnswerGetOptions(1)
  \/ UNCHANGED client /\ AnswerInsert(1)
  \/ UNCHANGED client /\ AnswerCandidate(1)

Spec == Init /\ [][Next]_vars

\* question sets for the validation of answers: one question, either
\* required by default with one option, or optional without options
ValidateQuestions ==
  {<<[order |-> NULL, required |-> "omitted",
      options |-> <<[nextContentId |-> NULL, order |-> NULL]>>]>>,
   <<[order |-> NULL, required |-> "false", options |-> <<>>]>>}

AnswerTextInputs == {NullStr, <<SP>>, <<SP, CH>>}

\* Validation of submit-answer: published items that each carry a question
\* and default to the item created before them, the first of which has its
\* question set replaced; request bodies without a questionId, with a
\* questionId and a text, and with a questionId and an optionId, naming the
\* ids generated so far.
NextValidate ==
  \/ /\ UNCHANGED client
     /\ \E qs \in ValidateQuestions :
          AdminCreateContent(NULL, "published", IF ids.item = 0 THEN NULL ELSE ids.item,
                             NULL, {qs})
  \/ /\ UNCHANGED client
     /\ \E qs \in ValidateQuestions :
          AdminPatchContent(1, NULL, "omitted", NULL, NULL, {qs})
  \/ /\ UNCHANGED client
     /\ RoomFor(MaxAnswers)
     /\ \/ \E q \in {NullStr, <<SP>>} : AnswerBegin(1, 1, q, NullStr, NullStr)
        \/ \E id \in 1..ids.item, q \in 1..ids.question, t \in AnswerTextInputs :
             AnswerBegin(1, id, <<SP, q, SP>>, NullStr, t)
        \/ \E id \in 1..ids.item, q \in 1..ids.question, o \in 1..ids.option,
              t \in {NullStr, <<SP>>} :
             AnswerBegin(1, id, <<SP, q, SP>>, IdStr(o), t)
  \/ UNCHANGED client /\ AnswerGetQuestions(1)
  \/ UNCHANGED client /\ AnswerGetOptions(1)
  \/ UNCHANGED client /\ AnswerInsert(1)
  \/ UNCHANGED client /\ AnswerCandidate(1)

SpecValidate == Init /\ [][NextValidate]_vars

\* one required question with one option
RequiredQuestion ==
  <<[order |-> NULL, required |-> "omitted",
     options |-> <<[nextContentId |-> NULL, order |-> NULL]>>]>>

\* Concurrent submissions: every user answers the questions currently stored,
\* while the administrator creates items with a question, makes the first
\* item its own default, replaces its question set and deletes items.
NextConc ==
  \/ /\ UNCHANGED client
     /\ AdminCreateContent(NULL, "published", NULL, NULL, {RequiredQuestion})
     /\ Authored(ConcQuestions)
  \/ /\ UNCHANGED client
     /\ AdminPatchContent(1, NULL, "omitted", 1, NULL, {})
  \/ /\ UNCHANGED client
     /\ \E qs \in {<<>>, RequiredQuestion} :
          AdminPatchContent(1, NULL, "omitted", NULL, NULL, {qs})
     /\ Authored(ConcQuestions)
  \/ /\ UNCHANGED client
     /\ \E id \in ItemIds : AdminDeleteContent(id)
  \/ /\ UNCHANGED client
     /\ RoomFor(MaxConcAnswers)
     /\ \E u \in Users, q \in contentQuestions, o \in contentOptions :
          /\ o.questionId = q.id
          /\ AnswerBegin(u, q.contentItemId, IdStr(q.id), IdStr(o.id), NullStr)
  \/ UNCHANGED client /\ \E u \in Users : AnswerGetQuestions(u)
  \/ UNCHANGED client /\ \E u \in Users : AnswerGetOptions(u)
  \/ UNCHANGED client /\ \E u \in Users : AnswerInsert(u)
  \/ UNCHANGED client /\ \E u \in Users : AnswerCandidate(u)

SpecConc == Init /\ [][NextConc]_vars

\* a question of the walk: required by default, with one option
WalkQuestion ==
  {[order |-> NULL, required |-> "omitted",
    options |-> <<[nextContentId |-> n, order |-> NULL]>>] : n \in {NULL} \cup ItemIds}

WalkQuestions ==
  {<<>>} \cup {<<q>> : q \in WalkQuestion}
         \cup {<<q1, q2>> : q1 \in WalkQuestion, q2 \in WalkQuestion}

\* The walk of one user through a trilha whose first item carries the
\* questions. The administrator lays the content out before the user opens
\* the page: the trilha, then the items (the later ones where the first one
\* is), then the default route and the questions of the first item. The
\* later items are withdrawn, republished and deleted, and the questions
\* taken away, at any time, also while the user walks.
NextWalker ==
  \/ /\ UNCHANGED client
     /\ walker.trilhaId = NULL /\ ids.item = 0 /\ trilhas = {}
     /\ \E startContentId \in {NULL} \cup ItemIds : AdminCreateTrilha(startContentId, NULL)
  \/ /\ UNCHANGED client
     /\ walker.trilhaId = NULL /\ ids.question = 0
     /\ \A i \in contentItems : i.nextContentId = NULL
     /\ \E trilhaId \in IF contentItems = {} THEN {NULL} \cup 1..ids.trilha
                          ELSE {i.trilhaId : i \in getContentItem(1)} :
          AdminCreateContent(trilhaId, "published", NULL, NULL, {})
  \/ /\ UNCHANGED client
     /\ \E status \in {"draft", "published"}, id \in ItemIds \ {1} :
          AdminPatchContent(id, NULL, status, NULL, NULL, {})
  \/ /\ UNCHANGED client
     /\ walker.trilhaId = NULL /\ ids.question = 0
     /\ \E next \in 1..ids.item : AdminPatchContent(1, NULL, "omitted", next, NULL, {})
  \/ /\ UNCHANGED client
     /\ \E qs \in IF walker.trilhaId = NULL THEN WalkQuestions ELSE {<<>>} :
          AdminPatchContent(1, NULL, "omitted", NULL, NULL, {qs})
  \/ /\ UNCHANGED client
     /\ \E id \in ItemIds \ {1} : AdminDeleteContent(id)
  \/ \E id \in 1..MaxTrilhas : WalkerOpen(id)
  \/ WalkerReenter
  \/ WalkerLoadContent
  \/ WalkerSelect
  \/ RoomFor(MaxAnswers) /\ WalkerContinue(1)
  \/ WalkerAnswered(1)
  \/ UNCHANGED client /\ AnswerGetQuestions(1)
  \/ UNCHANGED client /\ AnswerGetOptions(1)
  \/ UNCHANGED client /\ AnswerInsert(1)
  \/ UNCHANGED client /\ AnswerCandidate(1)

SpecWalker == Init /\ [][NextWalker]_vars

\* The administrator alone: items are created with or without questions,
\* their questions are replaced, and items are deleted.
NextAuthoring ==
  \/ /\ UNCHANGED client
     /\ \E status \in {"omitted", "published"},
           questions \in {{}} \cup {{qs} : qs \in WalkQuestions} :
          AdminCreateContent(NULL, status, NULL, NULL, questions)
  \/ /\ UNCHANGED client
     /\ \E id \in ItemIds, qs \in WalkQuestions :
          AdminPatchContent(id, NULL, "omitted", NULL, NULL, {qs})
  \/ /\ UNCHANGED client
     /\ \E id \in ItemIds : AdminDeleteContent(id)

SpecAuthoring == Init /\ [][NextAuthoring]_vars

\* The catalogue of trilhas: the administrator creates trilhas with or
\* without an explicit start, files items under them or under none, in
\* either status and order, publishes, withdraws and deletes items.
NextTracks ==
  \/ /\ UNCHANGED client
     /\ \E startContentId \in {NULL, EmptyId} \cup ItemIds :
          AdminCreateTrilha(startContentId, NULL)
  \/ /\ UNCHANGED client
     /\ \E trilhaId \in {NULL} \cup 1..ids.trilha, status \in {"omitted", "published"},
           order \in {NULL, 1} :
          AdminCreateContent(trilhaId, status, NULL, order, {})
  \/ /\ UNCHANGED client
     /\ \E status \in {"draft", "published"}, id \in ItemIds :
          AdminPatchContent(id, NULL, status, NULL, NULL, {})
  \/ /\ UNCHANGED client
     /\ \E id \in ItemIds : AdminDeleteContent(id)

SpecTracks == Init /\ [][NextTracks]_vars

\* bodies whose questions, or whose options, carry an explicit order, the
\* default one, or a mix of the two
OrderInputs == {NULL, 0, 1}

OrderQuestions ==
  {<<[order |-> NULL, required |-> "omitted",
      options |-> <<[nextContentId |-> NULL, order |-> o1],
                    [nextContentId |-> NULL, order |-> o2]>>]>>
     : o1 \in OrderInputs, o2 \in OrderInputs}
  \cup {<<[order |-> o1, required |-> "omitted", options |-> <<>>],
          [order |-> o2, required |-> "omitted", options |-> <<>>]>>
          : o1 \in OrderInputs, o2 \in OrderInputs}

\* The administrator authors items whose questions and options come with
\* orders, replaces the questions and deletes items.
NextOrder ==
  \/ /\ UNCHANGED client
     /\ \E status \in {"omitted", "published"},
           questions \in {{}} \cup {{qs} : qs \in OrderQuestions} :
          AdminCreateContent(NULL, status, NULL, NULL, questions)
  \/ /\ UNCHANGED client
     /\ \E id \in ItemIds, qs \in {<<>>} \cup OrderQuestions :
          AdminPatchContent(id, NULL, "omitted", NULL, NULL, {qs})
  \/ /\ UNCHANGED client
     /\ \E id \in ItemIds : AdminDeleteContent(id)

SpecOrder == Init /\ [][NextOrder]_vars

\* Trilhas come and go: the administrator creates trilhas, files items with
\* or without a question under them or under none, and deletes trilhas,
\* while a user answers the questions stored.
NextCascade ==
  \/ UNCHANGED client /\ AdminCreateTrilha(NULL, NULL)
  \/ /\ UNCHANGED client
     /\ \E trilhaId \in {NULL} \cup 1..ids.trilha,
           questions \in {{}} \cup {{<<q>>} : q \in WalkQuestion} :
          AdminCreateContent(trilhaId, "published", NULL, NULL, questions)
  \/ /\ UNCHANGED client
     /\ \E id \in 1..MaxTrilhas : AdminDeleteTrilha(id)
  \/ /\ UNCHANGED client
     /\ RoomFor(RouteAnswers)
     /\ \E q \in contentQuestions, o \in contentOptions :
          /\ o.questionId = q.id
          /\ AnswerBegin(1, q.contentItemId, IdStr(q.id), IdStr(o.id), NullStr)
  \/ UNCHANGED client /\ AnswerGetQuestions(1)
  \/ UNCHANGED client /\ AnswerGetOptions(1)
  \/ UNCHANGED client /\ AnswerInsert(1)
  \/ UNCHANGED client /\ AnswerCandidate(1)

SpecCascade == Init /\ [][NextCascade]_vars

(* ------------------------------- claims -------------------------------- *)
\* user u's request is answered with 200 in this step
Succeeds(u) ==
  /\ req[u].pc \in {"insert", "candidate"}
  /\ req'[u].pc = "done"
  /\ req'[u].resp.status = 200

\* C1: when the chosen option carries a nextContentId that names an existing
\* published item, the successful response returns that id as nextContentId,
\* whatever the default nextContentId of the answered item is.
OptionOverride ==
  [][\A u \in Users : \A o \in req[u].option :
       (/\ Succeeds(u)
        /\ o.nextContentId # NULL
        /\ \E c \in contentItems : c.id = o.nextContentId /\ c.status = "published")
       => req'[u].resp.nextContentId = o.nextContentId]_vars

\* a response took the route of the chosen option although the answered item
\* has a different default that names a published item
OptionOverrideWitness ==
  \E u \in Users : \E a \in req[u].resp.answer :
    \E o \in contentOptions, i \in contentItems, d \in contentItems :
      /\ req[u].resp.status = 200
      /\ o.id = a.optionId
      /\ i.id = a.contentItemId
      /\ o.nextContentId = req[u].resp.nextContentId
      /\ d.id = i.nextContentId /\ d.status = "published"
      /\ i.nextContentId # o.nextContentId

\* C2: when no option is chosen or the chosen option has no nextContentId, a
\* successful response returns the answered item's default nextContentId if
\* it names a published item and null otherwise (null when there is none).
Fallback ==
  [][\A u \in Users : \A i \in req[u].item :
       (/\ Succeeds(u)
        /\ \A o \in req[u].option : o.nextContentId = NULL)
       => req'[u].resp.nextContentId =
            IF \E c \in contentItems : c.id = i.nextContentId /\ c.status = "published"
            THEN i.nextContentId ELSE NULL]_vars

\* a required question whose chosen option has no route was answered with
\* success and the response carries the item's default
FallbackWitness ==
  \E u \in Users : \E a \in req[u].resp.answer :
    \E o \in contentOptions, q \in contentQuestions, i \in contentItems :
      /\ req[u].resp.status = 200
      /\ o.id = a.optionId /\ o.nextContentId = NULL
      /\ q.id = a.questionId /\ q.required
      /\ \A x \in contentOptions : x.questionId = q.id => x.nextContentId = NULL
      /\ i.id = a.contentItemId
      /\ i.nextContentId # NULL
      /\ req[u].resp.nextContentId = i.nextContentId

\* C7: when the resolved next id (the option's, else the item's) names no
\* published item the request still succeeds, with nextContentId and
\* nextContent both null; a nextContent in a response is always a published
\* item whose id is the response's nextContentId.
NeverRoutesToDraft ==
  /\ [](\A u \in Users :
         /\ \A c \in req[u].resp.nextContent :
              c.status = "published" /\ req[u].resp.nextContentId = c.id
         /\ req[u].resp.nextContent = {} => req[u].resp.nextContentId = NULL)
  /\ [][\A u \in Users : \A i \in req[u].item :
         LET fromOption == {o.nextContentId : o \in req[u].option} \ {NULL}
             resolved == IF fromOption = {} THEN {i.nextContentId} ELSE fromOption
         IN /\ (req[u].pc = "candidate" /\ req'[u].pc = "done")
                 => req'[u].resp.status = 200
            /\ (/\ Succeeds(u)
                /\ ~ \E c \in contentItems : c.id \in resolved /\ c.status = "published")
               => /\ req'[u].resp.nextContentId = NULL
                  /\ req'[u].resp.nextContent = {}]_vars

\* a request whose chosen option routes to a draft item was answered with
\* success and no next item
NeverRoutesToDraftWitness ==
  \E u \in Users : \E a \in req[u].resp.answer :
    \E o \in contentOptions, c \in contentItems :
      /\ req[u].resp.status = 200
      /\ o.id = a.optionId
      /\ c.id = o.nextContentId /\ c.status = "draft"
      /\ req[u].resp.nextContentId = NULL
      /\ req[u].resp.nextContent = {}

\* C3: a submit-answer that succeeds adds exactly one Answer row, with a new
\* id, and no step of any submit-answer request changes or removes a row that
\* existed before it; the same answer submitted again is a further row.
AppendOnly ==
  [][\A u \in Users :
       /\ req'[u] # req[u] => contentAnswers \subseteq contentAnswers'
       /\ (req[u].pc = "insert" /\ req'[u] # req[u] /\ req'[u].resp.status # 500)
            => /\ Cardinality(contentAnswers' \ contentAnswers) = 1
               /\ \A a \in contentAnswers' \ contentAnswers :
                    /\ \A b \in contentAnswers : b.id # a.id
                    /\ a.userId = u]_vars

\* the same answer of one user is stored twice, and between the two rows
\* another user's answer was stored
AppendOnlyWitness ==
  \E a \in contentAnswers, b \in contentAnswers, c \in contentAnswers :
    /\ a.id < c.id /\ c.id < b.id
    /\ a.userId = b.userId /\ a.contentItemId = b.contentItemId
    /\ a.questionId = b.questionId /\ a.optionId = b.optionId
    /\ a.optionId # NULL
    /\ c.userId # a.userId

\* C4: an administrator operation that replaces the question set of an item
\* (and so deletes its options) leaves every recorded Answer row in place.
AnswersSurviveEdits ==
  [][contentItems' = contentItems => contentAnswers \subseteq contentAnswers']_vars

IsBlank(t) == t = NullStr \/ \A k \in 1..Len(t) : t[k] = SP

\* C5: a submit-answer to a required question whose optionId matches none of
\* that question's options and whose answerText is absent or blank is
\* rejected with status 400, and a rejected request adds no Answer row.
RequiredAnswer ==
  [][\A u \in Users :
       /\ (/\ req[u].pc = "options"
           /\ req'[u] # req[u]
           /\ \E k \in 1..Len(req[u].qrows) :
                /\ IdStr(req[u].qrows[k].id) = req[u].questionId
                /\ req[u].qrows[k].required
                /\ ~ \E o \in contentOptions :
                       /\ o.questionId = req[u].qrows[k].id
                       /\ IdStr(o.id) = req[u].optionId
           /\ IsBlank(req[u].answerText))
          => /\ req'[u].pc = "done"
             /\ req'[u].resp.status = 400
             /\ req'[u].resp.message = "Resposta obrigatoria"
       /\ (req'[u] # req[u] /\ req'[u].resp.status = 400)
          => /\ contentAnswers' = contentAnswers
             /\ req[u].answer = {}
             /\ req'[u].resp.answer = {}]_vars

\* a request that names the option of another question and a blank text for
\* a required question was rejected
RequiredAnswerWitness ==
  \E u \in Users : \E q \in contentQuestions, o \in contentOptions :
    /\ req[u].pc = "done"
    /\ req[u].resp.message = "Resposta obrigatoria"
    /\ IdStr(q.id) = req[u].questionId /\ q.required
    /\ IdStr(o.id) = req[u].optionId /\ o.questionId # q.id
    /\ req[u].answerText = <<>>
    /\ contentAnswers # {}

\* C6: a submit-answer to item I whose questionId is not the id of one of
\* I's questions is rejected with status 400 and adds no Answer row.
QuestionOwnership ==
  [][\A u \in Users :
       /\ (/\ req[u].pc = "questions"
           /\ req'[u] # req[u]
           /\ ~ \E q \in contentQuestions :
                  q.contentItemId = req[u].id /\ IdStr(q.id) = req[u].questionId)
          => \/ req'[u].pc = "done" /\ req'[u].resp.status = 400
             \/ /\ req'[u].pc = "options"
                /\ \A k \in 1..Len(req'[u].qrows) :
                     IdStr(req'[u].qrows[k].id) # req[u].questionId
       /\ (/\ req[u].pc = "options"
           /\ req'[u] # req[u]
           /\ \A k \in 1..Len(req[u].qrows) :
                IdStr(req[u].qrows[k].id) # req[u].questionId)
          => /\ req'[u].pc = "done"
             /\ req'[u].resp.status = 400
             /\ req'[u].resp.message = "Pergunta invalida"
             /\ contentAnswers' = contentAnswers]_vars

\* a request to an item with questions of its own that named the question
\* of another item was rejected
QuestionOwnershipWitness ==
  \E u \in Users : \E q \in contentQuestions, p \in contentQuestions :
    /\ req[u].pc = "done"
    /\ req[u].resp.status = 400
    /\ req[u].resp.message = "Pergunta invalida"
    /\ IdStr(q.id) = req[u].questionId /\ q.contentItemId # req[u].id
    /\ p.contentItemId = req[u].id

\* the step mounts the page anew
ReenterStep ==
  /\ walker.trilhaId # NULL
  /\ ~walker.pending
  /\ walker' \in {Reentered(trilhaData), Reentered(TrilhaQuery(walker.trilhaId))}

\* the walker shows an item without questions and the Continue button is live
AtItemWithoutQuestions ==
  /\ Rendered
  /\ ~walker.pending
  /\ \A d \in CurrentData : d.questions = <<>>

\* id is the id of an item that is missing or not published
Dangling(id) ==
  /\ TruthyId(id)
  /\ ~ \E c \in contentItems : c.id = id /\ c.status = "published"

\* C8: when the walker is at an item without questions whose default
\* nextContentId names an item that is unpublished or deleted, pressing
\* Continue puts the walker in the Completed state.
DanglingDefaultCompletes ==
  [][(/\ AtItemWithoutQuestions
      /\ \E d \in CurrentData : Dangling(d.item.nextContentId)
      /\ walker' # walker
      /\ ~ReenterStep)
     => walker'.completed]_vars

\* C9: when the answer to the last question of an item is accepted and the
\* next id resolved for it names an item that is unpublished or missing, the
\* walker goes to the Completed state and to no other item.
DanglingAnswerCompletes ==
  [][(/\ walker.pending
      /\ ~walker.hasNextQuestion
      /\ req[1].pc = "done"
      /\ req[1].resp.status = 200
      /\ Dangling(req[1].nextId)
      /\ req[1].resp.nextContentId = NULL
      /\ walker' # walker)
     => /\ walker'.completed
        /\ walker'.currentId = walker.currentId]_vars

\* C10: when the walker is at an item without questions and without a
\* default nextContentId, its next step at that item puts it in the Completed
\* state and neither stores an Answer row nor sends a request.
TerminalItem ==
  [][(/\ AtItemWithoutQuestions
      /\ \E d \in CurrentData : d.item.nextContentId = NULL
      /\ walker' # walker
      /\ ~ReenterStep)
     => /\ walker'.completed
        /\ contentAnswers' = contentAnswers
        /\ req' = req]_vars

\* the walker completed at a published item that has neither questions nor a
\* default nextContentId, and no answer was ever stored
TerminalItemWitness ==
  /\ walker.completed
  /\ contentAnswers = {}
  /\ ids.answer = 0
  /\ \A u \in Users : req[u] = IdleReq
  /\ \E d \in CurrentData : \E i \in contentItems :
       /\ d.questions = <<>>
       /\ i.id = walker.currentId /\ i.status = "published" /\ i.nextContentId = NULL
       /\ ~ \E q \in contentQuestions : q.contentItemId = i.id

\* C13: for a requester who is not an administrator, fetching an item that
\* exists but is not published gives the same status and message as fetching
\* an id that names no item, and submit-answer with the same body gives the
\* same response against the one as against the other.
NotFoundIndistinguishable ==
  \A i \in contentItems : \A j \in ItemIds :
    (i.status # "published" /\ getContentItem(j) = {})
    => /\ GetConteudoReply(i.id, FALSE) = GetConteudoReply(j, FALSE)
       /\ \A q \in {NullStr, <<SP>>, IdStr(1)} :
            /\ AnswerBeginNext(i.id, q, NullStr, NullStr).pc = "done"
            /\ AnswerBeginNext(j, q, NullStr, NullStr).pc = "done"
            /\ AnswerBeginNext(i.id, q, NullStr, NullStr).resp
                 = AnswerBeginNext(j, q, NullStr, NullStr).resp

\* a submit-answer against a draft item was answered 404 while another id
\* names no item
NotFoundIndistinguishableWitness ==
  /\ req[1].pc = "done"
  /\ req[1].resp.status = 404
  /\ \E i \in contentItems : i.id = req[1].id /\ i.status = "draft"
  /\ \E j \in ItemIds : getContentItem(j) = {}

\* what getContentQuestions reads for one item out of the two tables, less
\* the generated ids
StoredQuestions(questions, options, contentItemId) ==
  LET qrows == CHOOSE s \in OrderedBy({q \in questions : q.contentItemId = contentItemId}) : TRUE
      orows(q) == CHOOSE s \in OrderedBy({o \in options : o.questionId = q.id}) : TRUE
  IN [k \in 1..Len(qrows) |->
        [order |-> qrows[k].order,
         required |-> qrows[k].required,
         options |-> [j \in 1..Len(orows(qrows[k])) |->
                        [nextContentId |-> orows(qrows[k])[j].nextContentId,
                         order |-> orows(qrows[k])[j].order]]]]

\* the rows replaceContentQuestions writes for the body qs, less the
\* generated ids
WrittenQuestions(qs) ==
  [k \in 1..Len(qs) |->
     [order |-> Coalesce(qs[k].order, k - 1),
      required |-> (qs[k].required # "false"),
      options |-> [j \in 1..Len(qs[k].options) |->
                     [nextContentId |-> qs[k].options[j].nextContentId,
                      order |-> Coalesce(qs[k].options[j].order, j - 1)]]]]

\* C20: a step that changes the questions or options while keeping every
\* item is one complete replacement: for some item and some body qs the
\* item's questions with their options are afterwards exactly qs, none of
\* its previous questions or options remains, the questions and options of
\* every other item are as before, and every option belongs to a stored
\* question; a replacement whose insert fails therefore leaves nothing
\* behind.
ExactReplace ==
  [][(/\ contentQuestions' # contentQuestions \/ contentOptions' # contentOptions
      /\ {i.id : i \in contentItems} \subseteq {i.id : i \in contentItems'})
     => \E id \in ItemIds, qs \in WalkQuestions :
          LET old == {q.id : q \in {x \in contentQuestions : x.contentItemId = id}}
          IN /\ StoredQuestions(contentQuestions', contentOptions', id) = WrittenQuestions(qs)
             /\ \A q \in contentQuestions' : q.id \notin old
             /\ \A o \in contentOptions' : o.questionId \notin old
             /\ {q \in contentQuestions' : q.contentItemId # id}
                  = {q \in contentQuestions : q.contentItemId # id}
             /\ {o \in contentOptions' : \E q \in contentQuestions' :
                                           q.id = o.questionId /\ q.contentItemId # id}
                  = {o \in contentOptions : o.questionId \notin old}
             /\ \A o \in contentOptions' : \E q \in contentQuestions' : q.id = o.questionId]_vars

\* the question an item was created with, routed to the item itself, has
\* been replaced by one routed to a later item
ExactReplaceWitness ==
  /\ ids.question = 2
  /\ ids.option = 2
  /\ contentQuestions = {[id |-> 2, contentItemId |-> 1, order |-> 0, required |-> TRUE]}
  /\ contentOptions = {[id |-> 2, questionId |-> 2, nextContentId |-> 2, order |-> 0]}

\* the published items filed under trilha id
PublishedUnder(id) == {i \in contentItems : i.status = "published" /\ i.trilhaId = id}

\* C15: a trilha has an entry in the list of GET /api/trilhas exactly when
\* at least one published item has its id as trilhaId, it has at most one
\* entry, and the entry's itemsCount is the number of those items; drafts,
\* items under no trilha and an explicit startContentId do not count.
TrackList ==
  /\ \A p \in GetTrilhas : \E t \in trilhas : t.id = p.id
  /\ \A t \in trilhas :
       /\ (PublishedUnder(t.id) # {}) <=> (\E p \in GetTrilhas : p.id = t.id)
       /\ \A p, q \in GetTrilhas : (p.id = t.id /\ q.id = t.id) => p = q
       /\ \A p \in GetTrilhas :
            p.id = t.id => p.itemsCount = Cardinality(PublishedUnder(t.id))

\* a trilha whose explicit start is a published item filed under no trilha
\* and whose only own item is a draft is not listed
TrackListWitness ==
  /\ GetTrilhas = {}
  /\ \E t \in trilhas : \E i, d \in contentItems :
       /\ t.startContentId = i.id
       /\ i.status = "published" /\ i.trilhaId = NULL
       /\ d.status = "draft" /\ d.trilhaId = t.id

\* the start GET /api/trilhas and GET /api/trilhas/:id are to report for t
EffectiveStart(t) ==
  IF t.startContentId # NULL THEN t.startContentId
  ELSE IF PublishedUnder(t.id) = {} THEN NULL
  ELSE (CHOOSE i \in PublishedUnder(t.id) :
          \A o \in PublishedUnder(t.id) :
            i.order < o.order \/ (i.order = o.order /\ i.id <= o.id)).id

\* C16: for every trilha the detail reports the explicit startContentId
\* when one is stored, otherwise the id of its first published item by
\* (order, creation), otherwise null, and the list reports the same value
\* for the trilhas it shows; the items of the detail are exactly the
\* trilha's published items in ascending (order, creation).
StartResolution ==
  \A t \in trilhas :
    /\ GetTrilhaDetail(t.id) # {}
    /\ \A d \in GetTrilhaDetail(t.id) :
         /\ d.startContentId = EffectiveStart(t)
         /\ Len(d.items) = Cardinality(PublishedUnder(t.id))
         /\ {d.items[k] : k \in 1..Len(d.items)} = PublishedUnder(t.id)
         /\ \A a, b \in 1..Len(d.items) :
              a < b => \/ d.items[a].order < d.items[b].order
                       \/ /\ d.items[a].order = d.items[b].order
                          /\ d.items[a].id < d.items[b].id
    /\ \A p \in GetTrilhas : p.id = t.id => p.startContentId = EffectiveStart(t)

\* a listed trilha without an explicit start whose later item comes first by
\* order: list and detail both start at the later item
StartResolutionWitness ==
  \E t \in trilhas : \E p \in GetTrilhas : \E d \in GetTrilhaDetail(t.id) :
    /\ t.startContentId = NULL
    /\ p.id = t.id
    /\ p.itemsCount = 2
    /\ d.items[1].id = 2 /\ d.items[2].id = 1
    /\ p.startContentId = 2 /\ d.startContentId = 2

\* the stored option of the answer row the response carries
ChosenOption ==
  {o \in contentOptions : \E a \in req[1].resp.answer : o.id = a.optionId}

\* the answer under way is the last of its item, was accepted, and the
\* option chosen for it carries no nextContentId
FinalAnswerWithoutRoute ==
  /\ walker.pending
  /\ ~walker.hasNextQuestion
  /\ req[1].pc = "done"
  /\ req[1].resp.status = 200
  /\ \E o \in ChosenOption : o.nextContentId = NULL

\* an earlier question of the current item was answered with an option
\* whose nextContentId is the override the walker holds, a published item
CapturedOverride ==
  /\ TruthyId(walker.branchNextId)
  /\ \E c \in contentItems : c.id = walker.branchNextId /\ c.status = "published"
  /\ \E a \in contentAnswers : \E o \in contentOptions :
       /\ a.contentItemId = walker.currentId
       /\ \A b \in req[1].resp.answer : a.questionId # b.questionId /\ a.id < b.id
       /\ o.id = a.optionId
       /\ o.nextContentId = walker.branchNextId

\* C11: when the last answer of an item carries no route and an earlier
\* answer chose an option routed to the published item X, the walker moves
\* to X, whether the item's default nextContentId is null or a published
\* item other than X.
OverridePersists ==
  [][(/\ FinalAnswerWithoutRoute
      /\ CapturedOverride
      /\ \E i \in getContentItem(walker.currentId) :
           \/ i.nextContentId = NULL
           \/ /\ i.nextContentId # walker.branchNextId
              /\ \E c \in contentItems : c.id = i.nextContentId /\ c.status = "published"
      /\ walker' # walker)
     => /\ ~walker'.completed
        /\ walker'.currentId = walker.branchNextId]_vars

\* the answer under way was accepted and the walker takes it in this step
AnswerTaken ==
  /\ walker.pending
  /\ req[1].pc = "done"
  /\ req[1].resp.status = 200
  /\ walker' # walker

\* the question on display is the last one of the item as the page has it
AtFinalQuestion == \E d \in CurrentData : walker.questionIndex = Len(d.questions) - 1

\* C12: an accepted answer to a question that is not the last of its item
\* adds one to questionIndex and keeps the current item; when the option
\* chosen for the last question carries the id E of a published item, the
\* response names E and the walker goes to E with questionIndex 0 and no
\* override, whatever earlier answers captured and whatever the item's
\* default is.
LastOverrideWins ==
  [][/\ (AnswerTaken /\ ~AtFinalQuestion)
        => /\ walker'.currentId = walker.currentId
           /\ walker'.questionIndex = walker.questionIndex + 1
           /\ ~walker'.completed
     /\ \A o \in req[1].option :
          (/\ Succeeds(1)
           /\ TruthyId(o.nextContentId)
           /\ \E c \in contentItems : c.id = o.nextContentId /\ c.status = "published")
          => req'[1].resp.nextContentId = o.nextContentId
     /\ \A o \in ChosenOption :
          (/\ AnswerTaken /\ AtFinalQuestion
           /\ TruthyId(o.nextContentId)
           /\ req[1].resp.nextContentId = o.nextContentId)
          => /\ walker'.currentId = o.nextContentId
             /\ walker'.questionIndex = 0
             /\ walker'.branchNextId = NULL
             /\ ~walker'.completed]_vars

\* the walker stands at item 2 after two answers at item 1, the first with
\* an option routed to item 1, the last with an option routed to item 2,
\* while the default of item 1 is item 1
LastOverrideWinsWitness ==
  /\ walker.currentId = 2 /\ walker.questionIndex = 0 /\ walker.branchNextId = NULL
  /\ ~walker.pending /\ ~walker.completed
  /\ req[1].resp.status = 200 /\ req[1].resp.nextContentId = 2
  /\ \E i \in contentItems : i.id = 1 /\ i.nextContentId = 1
  /\ \E a, b \in contentAnswers : \E o, p \in contentOptions :
       /\ a.id < b.id
       /\ a.contentItemId = 1 /\ b.contentItemId = 1
       /\ a.questionId # b.questionId
       /\ o.id = a.optionId /\ o.nextContentId = 1
       /\ p.id = b.optionId /\ p.nextContentId = 2

\* C14: what a requester who is not an administrator is sent never holds
\* an item that is not published: the list counts published items only, the
\* detail lists published items only, the content fetch answers with a
\* published item or not at all, and the nextContent of an answer is a
\* published item; an administrator who fetches a draft item receives it.
VisibilityFilter ==
  /\ \A p \in GetTrilhas :
       p.itemsCount = Cardinality({i \in contentItems :
                                     i.trilhaId = p.id /\ i.status = "published"})
  /\ \A t \in 1..MaxTrilhas : \A d \in GetTrilhaDetail(t) : \A k \in 1..Len(d.items) :
       d.items[k].status = "published"
  /\ \A id \in ItemIds : \A d \in contentData[id] : d.item.status = "published"
  /\ \A u \in Users : \A c \in req[u].resp.nextContent : c.status = "published"
  /\ \A i \in contentItems :
       i.status # "published"
       => /\ GetConteudo(i.id, FALSE) = {}
          /\ GetConteudoReply(i.id, FALSE).status = 404
          /\ GetConteudo(i.id, TRUE) # {}
          /\ \A d \in GetConteudo(i.id, TRUE) : d.item = i

\* item 2 is a draft of the trilha the user walks: the detail lists item 1
\* alone, the answer routed to item 2 came back without nextContent, the
\* user's fetch of item 2 finds nothing and the administrator's finds it
VisibilityFilterWitness ==
  /\ \E i \in contentItems : i.id = 2 /\ i.status = "draft" /\ i.trilhaId = 1
  /\ \E d \in GetTrilhaDetail(1) : Len(d.items) = 1 /\ d.items[1].id = 1
  /\ req[1].pc = "done" /\ req[1].resp.status = 200
  /\ req[1].nextId = 2 /\ req[1].resp.nextContent = {}
  /\ GetConteudo(2, FALSE) = {}
  /\ GetConteudo(2, TRUE) # {}
  /\ contentData[1] # {}

\* C17: when the walker of a trilha rests at the trilha's explicit
\* startContentId, which names an item that is missing or not published so
\* that the content fetch has nothing to deliver, the walker is in the
\* Completed state (it does not rest at the dangling id uncompleted).
DanglingStartEnds ==
  \A t \in trilhas :
    (/\ walker.trilhaId = t.id
     /\ Dangling(t.startContentId)
     /\ walker.currentId = t.startContentId
     /\ ~walker.pending
     /\ CurrentData = {}
     /\ GetConteudo(walker.currentId, FALSE) = {})
    => walker.completed

\* the page is opened on trilha t in this step
Opens(t) == walker.trilhaId = NULL /\ walker'.trilhaId = t.id

\* C18: opening a trilha that has no published items leaves the walker
\* without a current item and not completed, also when the trilha has an
\* explicit startContentId (here: one that names a published item).
NoContentState ==
  [][\A t \in trilhas :
       (/\ Opens(t)
        /\ PublishedUnder(t.id) = {}
        /\ ~Dangling(t.startContentId))
       => /\ walker'.currentId = NULL
          /\ ~walker'.completed]_vars

\* C19: while the walker is Completed no request is sent and no Answer row
\* is added, and the only step that changes the walker is the re-entry of
\* the trilha, which puts it at the start item the trilha query reports (at
\* no item when it reports none) with questionIndex 0, no override, nothing
\* selected and completed false.
CompletedTerminal ==
  [][walker.completed
     => /\ req' = req
        /\ contentAnswers' \subseteq contentAnswers
        /\ \/ walker' = walker
           \/ /\ ReenterStep
              /\ walker'.trilhaId = walker.trilhaId
              /\ walker'.questionIndex = 0
              /\ walker'.branchNextId = NULL
              /\ walker'.selectedOptionId = EmptyId
              /\ ~walker'.completed
              /\ ~walker'.pending
              /\ \/ trilhaData' = {} /\ walker'.currentId = NULL
                 \/ \E d \in trilhaData' :
                      walker'.currentId = IF TruthyId(d.startContentId)
                                          THEN d.startContentId ELSE NULL]_vars

\* the only question of item 1 was answered, the answer led nowhere, and the
\* walker is back at item 1, question 0, not completed: the trilha was
\* re-entered after completion
CompletedTerminalWitness ==
  /\ ~walker.completed /\ ~walker.pending
  /\ walker.currentId = 1 /\ walker.questionIndex = 0 /\ walker.branchNextId = NULL
  /\ req[1].pc = "done" /\ req[1].resp.status = 200 /\ req[1].resp.nextContentId = NULL
  /\ Cardinality({q \in contentQuestions : q.contentItemId = 1}) = 1
  /\ \E a \in contentAnswers : a.contentItemId = 1

\* C21: whatever an item was created or edited with, every response of the
\* fetch lists its questions, and within each question its options, by
\* ascending order with rows of equal order in the sequence of their
\* insertion (the sequence of the submitted list).
OrderRoundTrip ==
  \A i \in contentItems : \A d \in GetConteudo(i.id, TRUE) :
    /\ \A a, b \in 1..Len(d.questions) :
         a < b => \/ d.questions[a].order < d.questions[b].order
                  \/ /\ d.questions[a].order = d.questions[b].order
                     /\ d.questions[a].id < d.questions[b].id
    /\ \A k \in 1..Len(d.questions) : \A a, b \in 1..Len(d.questions[k].options) :
         a < b => \/ d.questions[k].options[a].order < d.questions[k].options[b].order
                  \/ /\ d.questions[k].options[a].order = d.questions[k].options[b].order
                     /\ d.questions[k].options[a].id < d.questions[k].options[b].id

SoftReferences ==
  \A i \in contentItems : DeleteItemsResult({i.id}).ok

\* C24: every step that gives the walker another current item leaves it at
\* question index 0 with no option selected and no override captured.
PerItemReset ==
  [][(walker'.currentId # walker.currentId /\ walker'.currentId # NULL)
     => /\ walker'.questionIndex = 0
        /\ walker'.selectedOptionId = EmptyId
        /\ walker'.branchNextId = NULL]_vars

\* the walker has come to item 2 and loaded it after two answers at item 1,
\* the first of which chose an option with a route and so left an override
PerItemResetWitness ==
  /\ walker.currentId = 2 /\ contentData[2] # {}
  /\ walker.questionIndex = 0 /\ walker.selectedOptionId = EmptyId
  /\ walker.branchNextId = NULL
  /\ \E a, b \in contentAnswers : \E o \in contentOptions :
       /\ a.id < b.id
       /\ a.contentItemId = 1 /\ b.contentItemId = 1
       /\ o.id = a.optionId /\ TruthyId(o.nextContentId)

\* C25 as stated: a request of the walker is in flight only while Continue
\* is disabled; the question index moves up only by one and only when a
\* submission that succeeded is taken; and a question index of a visit is
\* never posted a second time (stated for the indexes after the first, where
\* the last failed request on the question on display can only belong to
\* the current visit).
PostStep == ~walker.pending /\ walker'.pending

TakenStep == walker.pending /\ ~walker'.pending

QuestionAtIndex ==
  UNION {IF walker.questionIndex < Len(d.questions)
         THEN {d.questions[walker.questionIndex + 1].id} ELSE {} : d \in CurrentData}

FailedAtIndex ==
  /\ req[1].pc = "done" /\ req[1].resp.status # 200
  /\ req[1].id = walker.currentId
  /\ \E q \in QuestionAtIndex : req[1].questionId = IdStr(q)

OneInFlight ==
  /\ (req[1].pc \notin {"idle", "done"}) => walker.pending
  /\ walker.pending => /\ req[1].pc # "idle"
                       /\ walker'.questionIndex # walker.questionIndex => TakenStep
                       /\ walker'.currentId # walker.currentId => TakenStep
                       /\ walker'.pending => req'[1].id = req[1].id
                                             /\ req'[1].questionId = req[1].questionId

AdvanceByOne ==
  /\ walker'.questionIndex > walker.questionIndex
     => /\ walker'.questionIndex = walker.questionIndex + 1
        /\ TakenStep /\ req[1].resp.status = 200
        /\ walker'.currentId = walker.currentId
  /\ (TakenStep /\ req[1].resp.status = 200)
     => \/ /\ walker.hasNextQuestion
           /\ walker'.questionIndex = walker.questionIndex + 1
           /\ walker'.currentId = walker.currentId /\ ~walker'.completed
        \/ /\ ~walker.hasNextQuestion
           /\ walker'.questionIndex = 0

SequentialSubmission ==
  [][/\ OneInFlight
     /\ AdvanceByOne
     /\ (PostStep /\ walker.questionIndex >= 1) => ~FailedAtIndex]_vars

\* C25 as amended: a request of the walker is in flight only while Continue
\* is disabled; a failed submission leaves the walker where it is, free to
\* post the same question again; a submission that succeeded moves the index
\* up by exactly one or ends the visit; and every answer row stored for the
\* walker is for the question at the index the walker is waiting at, so no
\* index of a visit is answered twice.
SequentialAccepted ==
  [][/\ OneInFlight
     /\ AdvanceByOne
     /\ (TakenStep /\ req[1].resp.status # 200)
        => walker' = [walker EXCEPT !.pending = FALSE]
     /\ \A a \in contentAnswers' \ contentAnswers :
          /\ walker.pending /\ walker'.pending
          /\ a.contentItemId = walker.currentId
          /\ a.questionId \in QuestionAtIndex
          /\ req'[1].pc \in {"candidate", "done"}]_vars

\* the second question of item 1 was refused, the walker is still at it with
\* Continue enabled, and the first question has its one answer
SequentialAcceptedWitness ==
  /\ walker.currentId = 1 /\ walker.questionIndex = 1 /\ ~walker.pending
  /\ ~walker.completed
  /\ FailedAtIndex
  /\ ids.answer = 1

\* Answers against authoring: every user answers the questions currently
\* stored, while the administrator creates items with a question, each
\* with the item before it for its default, replaces
\* or removes the question set of the first item and deletes items.
NextRefs ==
  \/ /\ UNCHANGED client
     /\ AdminCreateContent(NULL, "published", IF ids.item = 0 THEN NULL ELSE ids.item,
                            NULL, {RequiredQuestion})
     /\ Authored(RefQuestions)
  \/ /\ UNCHANGED client
     /\ \E qs \in {<<>>, RequiredQuestion} :
          AdminPatchContent(1, NULL, "omitted", NULL, NULL, {qs})
     /\ Authored(RefQuestions)
  \/ /\ UNCHANGED client
     /\ \E id \in ItemIds : AdminDeleteContent(id)
  \/ /\ UNCHANGED client
     /\ RoomFor(MaxAnswers)
     /\ \E u \in Users, q \in contentQuestions, o \in contentOptions :
          /\ o.questionId = q.id
          /\ AnswerBegin(u, q.contentItemId, IdStr(q.id), IdStr(o.id), NullStr)
  \/ UNCHANGED client /\ \E u \in Users : AnswerGetQuestions(u)
  \/ UNCHANGED client /\ \E u \in Users : AnswerGetOptions(u)
  \/ UNCHANGED client /\ \E u \in Users : AnswerInsert(u)
  \/ UNCHANGED client /\ \E u \in Users : AnswerCandidate(u)

SpecRefs == Init /\ [][NextRefs]_vars

\* C26: every stored Answer row names a question that is stored and that
\* belongs to the item the row names, and that item is stored.
AnswerReferences ==
  \A a \in contentAnswers :
    /\ getContentItem(a.contentItemId) # {}
    /\ \E q \in contentQuestions :
         q.id = a.questionId /\ q.contentItemId = a.contentItemId

\* an answer is stored while another submission was refused by the database
\* because the administrator had replaced the questions it had read
AnswerReferencesWitness ==
  /\ contentAnswers # {}
  /\ ids.question >= 2
  /\ \E u \in Users : req[u].pc = "done" /\ req[u].resp.status = 500

\* one question, required or optional, with one option that has no route or
\* routes to the first item
OptionQuestions ==
  {<<[order |-> NULL, required |-> r,
      options |-> <<[nextContentId |-> n, order |-> NULL]>>]>> :
     r \in {"omitted", "false"}, n \in {NULL, 1}}

\* Options named in answers: the administrator creates items with one such
\* question, each item with the item before it for its default, and replaces
\* the question of the first item; the user answers the questions of the
\* first item naming no option, any stored option or an unknown one, with or
\* without a text.
NextOptions ==
  \/ /\ UNCHANGED client
     /\ \E qs \in OptionQuestions :
          AdminCreateContent(NULL, "published", IF ids.item = 0 THEN NULL ELSE ids.item,
                             NULL, {qs})
     /\ Authored(RefQuestions)
  \/ /\ UNCHANGED client
     /\ \E qs \in OptionQuestions : AdminPatchContent(1, NULL, "omitted", NULL, NULL, {qs})
     /\ Authored(RefQuestions)
  \/ /\ UNCHANGED client
     /\ RoomFor(RouteAnswers)
     /\ \E q \in contentQuestions,
           o \in {NullStr} \cup {IdStr(x) : x \in 1..(ids.option + 1)},
           t \in {NullStr, <<CH>>} :
          /\ q.contentItemId = 1
          /\ AnswerBegin(1, 1, IdStr(q.id), o, t)
  \/ UNCHANGED client /\ AnswerGetQuestions(1)
  \/ UNCHANGED client /\ AnswerGetOptions(1)
  \/ UNCHANGED client /\ AnswerInsert(1)
  \/ UNCHANGED client /\ AnswerCandidate(1)

SpecOptions == Init /\ [][NextOptions]_vars

\* C27: the optionId of every Answer row being stored is null or the id of a
\* stored option of the question the row names; it is null exactly when the
\* submitted optionId is not the id of an option of that question, and then
\* the next id the handler resolves is the answered item's default; and a
\* successful response to an answer stored with a null optionId returns
\* null or that next id.
RecordedOption ==
  [][\A u \in Users :
       /\ \A a \in contentAnswers' \ contentAnswers :
            a.userId = u
            => LET own == {o \in contentOptions :
                             o.questionId = a.questionId /\ IdStr(o.id) = req[u].optionId}
               IN /\ a.optionId = NULL \/ \E o \in own : o.id = a.optionId
                  /\ own = {} <=> a.optionId = NULL
                  /\ own = {} => \A i \in req[u].item :
                                   req'[u].nextId = Coalesce(i.nextContentId, NULL)
       /\ (req[u].pc \in {"insert", "candidate"} /\ req'[u].pc = "done"
           /\ req'[u].resp.status = 200)
          => \A a \in req'[u].resp.answer :
               a.optionId = NULL => req'[u].resp.nextContentId \in {NULL, req'[u].nextId}]_vars

\* an optional question was answered with the id of the option of another
\* question, an option that has a route: the row holds no option and the
\* response does not carry that route
RecordedOptionWitness ==
  /\ req[1].pc = "done" /\ req[1].resp.status = 200
  /\ \E a \in req[1].resp.answer : \E o \in contentOptions :
       /\ a.optionId = NULL
       /\ IdStr(o.id) = req[1].optionId
       /\ o.questionId # a.questionId
       /\ o.nextContentId # NULL
       /\ req[1].resp.nextContentId # o.nextContentId

\* Editing references: the administrator creates trilhas and items without
\* references, then patches the items and the trilhas with nothing, "" or
\* the id of any item or trilha, and deletes items.
NextPatch ==
  \/ /\ UNCHANGED client
     /\ AdminCreateTrilha(NULL, NULL)
  \/ /\ UNCHANGED client
     /\ AdminCreateContent(NULL, "published", NULL, NULL, {})
  \/ /\ UNCHANGED client
     /\ \E id \in ItemIds, trilhaId \in {NULL} \cup 1..ids.trilha, next \in Refs :
          AdminPatchContent(id, trilhaId, "omitted", next, NULL, {})
  \/ /\ UNCHANGED client
     /\ \E id \in 1..MaxTrilhas, startContentId \in Refs :
          AdminPatchTrilha(id, startContentId, NULL)
  \/ /\ UNCHANGED client
     /\ \E id \in ItemIds : AdminDeleteContent(id)

SpecPatch == Init /\ [][NextPatch]_vars

\* C28: an update of an item that carries null or nothing for every field
\* leaves the item as stored; and no step leaves an item that stays stored
\* with a null nextContentId or trilhaId where it had one, nor a trilha that
\* stays stored with a null startContentId where it had one.
NoClearing ==
  [][/\ \A i \in contentItems : UpdatedItem(i, NULL, "omitted", NULL, NULL) = i
     /\ \A i \in contentItems : \A j \in contentItems' :
          j.id = i.id => /\ i.nextContentId # NULL => j.nextContentId # NULL
                         /\ i.trilhaId # NULL => j.trilhaId # NULL
     /\ \A t \in trilhas : \A x \in trilhas' :
          x.id = t.id => (t.startContentId # NULL => x.startContentId # NULL)]_vars

\* the first item, created without references, has been filed under the
\* trilha and given a route to an item that has since been deleted, and the
\* trilha, created without a start, has been given one
NoClearingWitness ==
  /\ \E i \in getContentItem(1) : i.trilhaId = 1 /\ i.nextContentId = 2
  /\ getContentItem(2) = {}
  /\ \E t \in trilhas : t.startContentId = 1

\* one required question with one option that routes nowhere, to an item id
\* or to an id that is never generated
AtomicQuestion ==
  {[order |-> NULL, required |-> "omitted",
    options |-> <<[nextContentId |-> n, order |-> NULL]>>] :
     n \in {NULL} \cup 1..(MaxItems + 1)}

\* Authoring with questions that can fail: every creation and every update
\* carries one such question, which the database refuses when no item with
\* the id of the route is stored; items are created published and updates
\* set the status.
NextAtomic ==
  \/ /\ UNCHANGED client
     /\ \E q \in AtomicQuestion :
          AdminCreateContent(NULL, "published", NULL, NULL, {<<q>>})
  \/ /\ UNCHANGED client
     /\ \E id \in ItemIds, status \in {"draft", "published"}, q \in AtomicQuestion :
          AdminPatchContent(id, NULL, status, NULL, NULL, {<<q>>})
  \/ /\ UNCHANGED client
     /\ \E id \in ItemIds : AdminDeleteContent(id)

SpecAtomic == Init /\ [][NextAtomic]_vars

\* C29: every step that generates an item id stores the item, and when it
\* stores no question with it (the replacement of the questions failed) the
\* questions, options and answers are as before; every step that changes a
\* field of a stored item without generating an id (the replacement failed)
\* leaves the questions, options and answers as before.
NotAtomic ==
  [][/\ ids'.item = ids.item + 1
        => /\ \E i \in contentItems' : i.id = ids'.item /\ i.status = "published"
           /\ ids'.question = ids.question
              => /\ contentQuestions' = contentQuestions
                 /\ contentOptions' = contentOptions
                 /\ contentAnswers' = contentAnswers
     /\ (/\ ids' = ids
         /\ contentItems' # contentItems
         /\ {i.id : i \in contentItems'} = {i.id : i \in contentItems})
        => /\ contentQuestions' = contentQuestions
           /\ contentOptions' = contentOptions
           /\ contentAnswers' = contentAnswers]_vars

\* the second item was created with a question that was refused and is
\* stored without questions; the first item was set to draft by an update
\* whose question was refused and still has the question it was created with
NotAtomicWitness ==
  /\ ids.item = 2 /\ ids.question = 1
  /\ \E i \in getContentItem(1) : i.status = "draft"
  /\ getContentItem(2) # {}
  /\ \E q \in contentQuestions : q.id = 1 /\ q.contentItemId = 1

\* One run over fixed content: the administrator authors as for the walker
\* (a trilha, its items, the default route of the first item, its
\* questions, drafts and deletions of the later items) and stops when the
\* page opens; the page is opened once and not left.
NextRun ==
  \/ /\ UNCHANGED client
     /\ walker.trilhaId = NULL /\ ids.item = 0 /\ trilhas = {}
     /\ \E startContentId \in {NULL} \cup ItemIds : AdminCreateTrilha(startContentId, NULL)
  \/ /\ UNCHANGED client
     /\ walker.trilhaId = NULL /\ ids.question = 0
     /\ \A i \in contentItems : i.nextContentId = NULL
     /\ \E trilhaId \in IF contentItems = {} THEN {NULL} \cup 1..ids.trilha
                          ELSE {i.trilhaId : i \in getContentItem(1)} :
          AdminCreateContent(trilhaId, "published", NULL, NULL, {})
  \/ /\ UNCHANGED client
     /\ walker.trilhaId = NULL
     /\ \E status \in {"draft", "published"}, id \in ItemIds \ {1} :
          AdminPatchContent(id, NULL, status, NULL, NULL, {})
  \/ /\ UNCHANGED client
     /\ walker.trilhaId = NULL /\ ids.question = 0
     /\ \E next \in 1..ids.item : AdminPatchContent(1, NULL, "omitted", next, NULL, {})
  \/ /\ UNCHANGED client
     /\ walker.trilhaId = NULL
     /\ \E qs \in WalkQuestions : AdminPatchContent(1, NULL, "omitted", NULL, NULL, {qs})
  \/ /\ UNCHANGED client
     /\ walker.trilhaId = NULL
     /\ \E id \in ItemIds \ {1} : AdminDeleteContent(id)
  \/ \E id \in 1..MaxTrilhas : WalkerOpen(id)
  \/ WalkerLoadContent
  \/ WalkerSelect
  \/ (CurrentQuestion = {} \/ RoomFor(MaxAnswers)) /\ WalkerContinue(1)
  \/ WalkerAnswered(1)
  \/ UNCHANGED client /\ AnswerGetQuestions(1)
  \/ UNCHANGED client /\ AnswerGetOptions(1)
  \/ UNCHANGED client /\ AnswerInsert(1)
  \/ UNCHANGED client /\ AnswerCandidate(1)

SpecRun == Init /\ [][NextRun]_vars

\* the run under its scheduling: every query and every request is answered,
\* and the user keeps choosing an option and pressing Continue
SpecRunFair ==
  /\ SpecRun
  /\ WF_vars(WalkerLoadContent)
  /\ WF_vars(WalkerSelect)
  /\ WF_vars((CurrentQuestion = {} \/ RoomFor(MaxAnswers)) /\ WalkerContinue(1))
  /\ WF_vars(WalkerAnswered(1))
  /\ WF_vars(UNCHANGED client /\ AnswerGetQuestions(1))
  /\ WF_vars(UNCHANGED client /\ AnswerGetOptions(1))
  /\ WF_vars(UNCHANGED client /\ AnswerInsert(1))
  /\ WF_vars(UNCHANGED client /\ AnswerCandidate(1))

\* the ids of the published items
PublishedIds == {i.id : i \in {x \in contentItems : x.status = "published"}}

\* the published items an item leads to: by its default nextContentId and by
\* the nextContentId of the options of its questions
Succ(id) ==
  PublishedIds \cap
    ({i.nextContentId : i \in getContentItem(id)}
       \cup {o.nextContentId : o \in {x \in contentOptions :
                                        \E q \in contentQuestions :
                                          q.contentItemId = id /\ x.questionId = q.id}})

\* the items reached from the items of S in at most n steps
RECURSIVE ReachFrom(_, _)
ReachFrom(S, n) ==
  IF n = 0 THEN S ELSE ReachFrom(S \cup UNION {Succ(x) : x \in S}, n - 1)

\* the walk was opened at a published item and no published item reachable
\* from it leads back to itself
AcyclicRun ==
  /\ walker.trilhaId # NULL
  /\ \E d \in trilhaData :
       /\ d.startContentId \in PublishedIds
       /\ \A x \in ReachFrom({d.startContentId}, MaxItems) :
            x \notin ReachFrom(Succ(x), MaxItems)

\* C30: in a run opened at a published item from which the published items
\* reachable form no cycle, over content that is not edited, the walker
\* becomes Completed; and every step that gives the walker another current
\* item follows a default or an option route of the item it leaves.
Terminates ==
  /\ AcyclicRun ~> walker.completed
  /\ [][(walker.currentId # NULL /\ walker'.currentId # walker.currentId
         /\ walker'.currentId \in PublishedIds)
        => walker'.currentId \in Succ(walker.currentId)]_vars

====
